---------------------------- MODULE Spec2Model ----------------------------
(***************************************************************************)
(* Model of app.py: the SeismicCubeProcessor singleton (the current Cube)  *)
(* and the request handlers that ingest a SEG-Y file and serve slices.     *)
(*                                                                         *)
(* A SEG-Y file is what segyio delivers: the sample axis, and per trace a  *)
(* header (which may be unreadable) and a sample vector.  Amplitudes are   *)
(* integers; NaN, +Infinity and -Infinity are three reserved codes.        *)
(* Python None is the record None; a numpy array is ndarray(v) with v a    *)
(* sequence (of sequences (of sequences)).  Python indices are 0-based,    *)
(* sequences here are 1-based: every index crossing the boundary is        *)
(* shifted by one where it is used.                                        *)
(*                                                                         *)
(* Not modelled: the MongoDB metadata store, session and cube ids, file    *)
(* saving and ZIP extraction, the percentile fields of amplitude_range     *)
(* (floating-point interpolation), and I/O errors while reading a trace's  *)
(* samples whose header was read.                                          *)
(***************************************************************************)
EXTENDS Integers, Sequences, FiniteSets, TLC

VARIABLES
    processor,    \* the module-level SeismicCubeProcessor instance
    request,      \* the request handled last
    response,     \* the answer to it
    locals,       \* load_segy_file's local lists when it last returned
    ever_loaded,  \* history: some load_segy_file call has returned True
    upload_pc,    \* position of the upload thread inside load_segy_file
    pending_file, \* the SEG-Y file of the upload that is under way or about to be made
    slice_pc,     \* position of the slice thread inside get_slice
    slice_req     \* the slice thread's request and what it has read so far

vars == <<processor, request, response, locals, ever_loaded,
          upload_pc, pending_file, slice_pc, slice_req>>

-----------------------------------------------------------------------------
(* Values *)

None == [tag |-> "None"]

ndarray(v) == [tag |-> "ndarray", v |-> v]

NaN == 1000

PosInf == 1001

NegInf == 1002

SetMin(S) == CHOOSE m \in S : \A x \in S : m <= x

SetMax(S) == CHOOSE m \in S : \A x \in S : x <= m

RECURSIVE sorted(_)
sorted(S) == IF S = {} THEN <<>>
             ELSE LET m == SetMin(S) IN <<m>> \o sorted(S \ {m})

RECURSIVE SeqSum(_)
SeqSum(s) == IF s = <<>> THEN 0 ELSE Head(s) + SeqSum(Tail(s))

RECURSIVE Concat(_)
Concat(ss) == IF ss = <<>> THEN <<>> ELSE Head(ss) \o Concat(Tail(ss))

Range(s) == {s[k] : k \in 1..Len(s)}

\* np.nan_to_num(x, nan=0.0, posinf=0.0, neginf=0.0) on one value
nan_to_num_bug(v) == IF v \in {NaN, PosInf} THEN 0 ELSE v

nan_to_num(v) == IF v \in {NaN, PosInf, NegInf} THEN 0 ELSE v

nan_to_num_seq(s) == [k \in 1..Len(s) |-> nan_to_num(s[k])]

\* the elements of a 2-D or 3-D array in one sequence (row-major)
Flatten2(m) == Concat(m)

Flatten3(c) == Concat([i \in 1..Len(c) |-> Concat(c[i])])

-----------------------------------------------------------------------------
(* What segyio delivers for a file (segyio.open, f.samples, f.header[i],   *)
(* f.trace[i]).  A header with readable = FALSE raises when it is read; a  *)
(* header with coord_readable = FALSE raises when CDP_X/CDP_Y are read.    *)

Header(il, xl) ==
    [readable |-> TRUE, INLINE_3D |-> il, CROSSLINE_3D |-> xl,
     coord_readable |-> TRUE, CDP_X |-> 0, CDP_Y |-> 0,
     SourceX |-> 0, SourceY |-> 0]

UnreadableHeader == [Header(0, 0) EXCEPT !.readable = FALSE]

WithCoords(h, c) ==
    [h EXCEPT !.coord_readable = c.coord_readable, !.CDP_X = c.CDP_X,
              !.CDP_Y = c.CDP_Y, !.SourceX = c.SourceX, !.SourceY = c.SourceY]

Trace(h, samples) == [header |-> h, data |-> samples]

\* f.samples: one axis value per sample
SampleAxis(n) == [k \in 1..n |-> k - 1]

SegyFile(n_samples, traces) ==
    [openable |-> TRUE, samples |-> SampleAxis(n_samples), trace |-> traces]

\* a file segyio.open raises on
CorruptFile == [openable |-> FALSE, samples |-> <<>>, trace |-> <<>>]

-----------------------------------------------------------------------------
(* load_segy_file: trace locator (lines 118-153) *)

\* int(np.sqrt(n_traces))
int_sqrt(n) == CHOOSE g \in 0..n : g * g <= n /\ n < (g + 1) * (g + 1)

grid_size_bug(n_traces) == n_traces

grid_size(n_traces) == int_sqrt(n_traces)

\* both ids taken from the quotient
fallback_placement_bug(i, n_traces) ==
    [inline |-> (i \div grid_size(n_traces)) + 1,
     xline  |-> (i \div grid_size(n_traces)) + 1,
     x |-> 0, y |-> 0]

\* lines 142-146 and 149-153: placement synthesised from the ordinal i (0-based)
fallback_placement(i, n_traces) ==
    [inline |-> (i \div grid_size(n_traces)) + 1,
     xline  |-> (i % grid_size(n_traces)) + 1,
     x |-> 0, y |-> 0]

\* lines 125-134: CDP_X/CDP_Y, else SourceX/SourceY, else (0, 0)
header_coords(h) ==
    IF ~h.coord_readable THEN [x |-> 0, y |-> 0]
    ELSE IF h.CDP_X = 0 /\ h.CDP_Y = 0 THEN [x |-> h.SourceX, y |-> h.SourceY]
    ELSE [x |-> h.CDP_X, y |-> h.CDP_Y]

\* line 136 (and the except of line 148 for an unreadable header)
uses_header_ids(h) == h.readable /\ h.INLINE_3D # 0 /\ h.CROSSLINE_3D # 0

\* one pass of the loop of lines 118-153, for the trace at ordinal i (0-based)
locate_trace(f, i) ==
    LET h == f.trace[i + 1].header
    IN  IF uses_header_ids(h)
        THEN [inline |-> h.INLINE_3D, xline |-> h.CROSSLINE_3D,
              x |-> header_coords(h).x, y |-> header_coords(h).y]
        ELSE fallback_placement(i, Len(f.trace))

\* the four lists after the loop of lines 118-153
read_trace_headers(f) ==
    LET n_traces == Len(f.trace)
    IN  [inlines  |-> [k \in 1..n_traces |-> locate_trace(f, k - 1).inline],
         xlines   |-> [k \in 1..n_traces |-> locate_trace(f, k - 1).xline],
         x_coords |-> [k \in 1..n_traces |-> locate_trace(f, k - 1).x],
         y_coords |-> [k \in 1..n_traces |-> locate_trace(f, k - 1).y]]

NoLocals == [inlines |-> <<>>, xlines |-> <<>>, x_coords |-> <<>>, y_coords |-> <<>>]

-----------------------------------------------------------------------------
(* load_segy_file: grid indexer (lines 155-171) *)

unique_inlines_bug(loc) == loc.inlines

\* lines 155-156
unique_inlines(loc) == sorted(Range(loc.inlines))

unique_xlines(loc) == sorted(Range(loc.xlines))

\* {value: idx for idx, value in enumerate(axis)}: 0-based index of a value
index_map(axis) == [v \in Range(axis) |-> (CHOOSE k \in 1..Len(axis) : axis[k] = v) - 1]

-----------------------------------------------------------------------------
(* calculate_survey_geometry (lines 243-313).  A coordinate pair is the    *)
(* tuple <<x, y>>; dict.get's None is the empty tuple, which is the only   *)
(* falsy one.  Coordinates are drawn from 0..2, so the differences handed  *)
(* to arctan2 lie in -1..1, where the azimuth is a whole number of degrees.*)

default_geometry == [inline_azimuth |-> 0, xline_azimuth |-> 90, has_coordinates |-> FALSE]

\* line 247: the ordinals (1-based) of the entries that carry coordinates
coord_entries(inlines, xlines, x_coords, y_coords) ==
    {k \in 1..Len(inlines) : x_coords[k] # 0 /\ y_coords[k] # 0}

\* line 247: the dict; a later entry with the same key replaces an earlier one
coord_map(inlines, xlines, x_coords, y_coords) ==
    LET E == coord_entries(inlines, xlines, x_coords, y_coords)
        K == {<<inlines[k], xlines[k]>> : k \in E}
    IN  [key \in K |->
            LET last == SetMax({k \in E : <<inlines[k], xlines[k]>> = key})
            IN  <<x_coords[last], y_coords[last]>>]

\* coord_map.get(key)
dict_get(m, key) == IF key \in DOMAIN m THEN m[key] ELSE <<>>

truthy(p) == p # <<>>

\* (np.degrees(np.arctan2(dx, dy)) + 360) % 360
azimuth(dx, dy) ==
    CASE dx = 0 /\ dy >= 0 -> 0
      [] dx > 0 /\ dy = dx -> 45
      [] dx > 0 /\ dy = 0 -> 90
      [] dx > 0 /\ dy = -dx -> 135
      [] dx = 0 /\ dy < 0 -> 180
      [] dx < 0 /\ dy = dx -> 225
      [] dx < 0 /\ dy = 0 -> 270
      [] dx < 0 /\ dy = -dx -> 315

\* lines 258-269: the two points the inline azimuth is taken from
inline_points(m, uil, uxl) ==
    LET min_il == uil[1]
        max_il == uil[Len(uil)]
        first == <<dict_get(m, <<min_il, uxl[1]>>), dict_get(m, <<max_il, uxl[1]>>)>>
        at(k) == <<dict_get(m, <<min_il, uxl[k]>>), dict_get(m, <<max_il, uxl[k]>>)>>
        hits == {k \in 1..Len(uxl) : truthy(at(k)[1]) /\ truthy(at(k)[2])}
    IN  IF truthy(first[1]) /\ truthy(first[2]) THEN first
        ELSE IF hits # {} THEN at(SetMin(hits))
        ELSE at(Len(uxl))

\* lines 273-284: the two points the crossline azimuth is taken from
xline_points(m, uil, uxl) ==
    LET min_xl == uxl[1]
        max_xl == uxl[Len(uxl)]
        first == <<dict_get(m, <<uil[1], min_xl>>), dict_get(m, <<uil[1], max_xl>>)>>
        at(k) == <<dict_get(m, <<uil[k], min_xl>>), dict_get(m, <<uil[k], max_xl>>)>>
        hits == {k \in 1..Len(uil) : truthy(at(k)[1]) /\ truthy(at(k)[2])}
    IN  IF truthy(first[1]) /\ truthy(first[2]) THEN first
        ELSE IF hits # {} THEN at(SetMin(hits))
        ELSE at(Len(uil))

\* lines 287-297: the azimuth of a pair of points, or the default
points_azimuth(pts, default) ==
    IF truthy(pts[1]) /\ truthy(pts[2])
    THEN azimuth(pts[2][1] - pts[1][1], pts[2][2] - pts[1][2])
    ELSE default

min_coord_entries_bug == 4 - 1

\* line 249: the least number of coordinate entries geometry is computed from
min_coord_entries == 4

calculate_survey_geometry(inlines, xlines, x_coords, y_coords, uil, uxl) ==
    LET m == coord_map(inlines, xlines, x_coords, y_coords)
    IN  IF Cardinality(DOMAIN m) < min_coord_entries THEN default_geometry
        ELSE [inline_azimuth |-> points_azimuth(inline_points(m, uil, uxl), 0),
              xline_azimuth |-> points_azimuth(xline_points(m, uil, uxl), 90),
              has_coordinates |-> TRUE]

-----------------------------------------------------------------------------
(* load_segy_file: cube assembler (lines 167-188) and statistics (195-220) *)

\* np.zeros((n_il, n_xl, n_samples))
zeros3(n_il, n_xl, n_samples) ==
    [i \in 1..n_il |-> [c \in 1..n_xl |-> [k \in 1..n_samples |-> 0]]]

\* lines 175-185: the cube after trace i (0-based) has been written
scatter_trace_bug(cube, f, loc, i) ==
    LET inline_idx == index_map(unique_inlines(loc))[loc.inlines[i + 1]]
        xline_idx == index_map(unique_xlines(loc))[loc.xlines[i + 1]]
    IN  IF \E k \in 1..Len(cube[inline_idx + 1][xline_idx + 1]) :
               cube[inline_idx + 1][xline_idx + 1][k] # 0
        THEN cube
        ELSE [cube EXCEPT ![inline_idx + 1][xline_idx + 1] =
                              nan_to_num_seq(f.trace[i + 1].data)]

scatter_trace(cube, f, loc, i) ==
    IF loc.inlines[i + 1] \in DOMAIN index_map(unique_inlines(loc))
       /\ loc.xlines[i + 1] \in DOMAIN index_map(unique_xlines(loc))
    THEN LET inline_idx == index_map(unique_inlines(loc))[loc.inlines[i + 1]]
             xline_idx == index_map(unique_xlines(loc))[loc.xlines[i + 1]]
         IN  [cube EXCEPT ![inline_idx + 1][xline_idx + 1] =
                              nan_to_num_seq(f.trace[i + 1].data)]
    ELSE cube

\* the loop of lines 173-188 run for the traces 0 .. n-1
RECURSIVE scatter(_, _, _, _)
scatter(cube, f, loc, n) ==
    IF n = 0 THEN cube
    ELSE scatter_trace(scatter(cube, f, loc, n - 1), f, loc, n - 1)

\* min, max, mean and std of the values (a non-empty sequence); the mean is
\* the fraction <<sum, count>>, std is its square as a fraction
stats_of(values) ==
    LET n == Len(values)
        sum == SeqSum(values)
        sumsq == SeqSum([k \in 1..n |-> values[k] * values[k]])
    IN  [min |-> SetMin(Range(values)), max |-> SetMax(Range(values)),
         mean |-> <<sum, n>>, std |-> <<n * sumsq - sum * sum, n * n>>]

\* lines 197-220 (np.min raises on an empty array: that case is decided
\* before this is used)
amplitude_range_of(cube) ==
    LET st == stats_of(nan_to_num_seq(Flatten3(cube)))
    IN  [actual_min |-> st.min, actual_max |-> st.max, mean |-> st.mean, std |-> st.std]

-----------------------------------------------------------------------------
(* SeismicCubeProcessor *)

\* __init__ (lines 82-95); the geometry attribute does not exist yet
new_processor ==
    [data |-> None, inline_range |-> None, xline_range |-> None,
     sample_range |-> None, amplitude_range |-> None,
     current_inline_idx |-> 0, current_xline_idx |-> 0, current_sample_idx |-> 0,
     inline_coords |-> None, xline_coords |-> None, sample_coords |-> None,
     geometry |-> None]

shape(arr) == <<Len(arr.v), Len(arr.v[1]), Len(arr.v[1][1])>>

\* the statements of load_segy_file that assign to self, in program order
stmt_110(self, f) == [self EXCEPT !.sample_coords = ndarray(f.samples)]

stmt_161(self, loc) == [self EXCEPT !.inline_coords = ndarray(unique_inlines(loc))]

stmt_162(self, loc) == [self EXCEPT !.xline_coords = ndarray(unique_xlines(loc))]

stmt_168(self, f, loc) ==
    [self EXCEPT !.data = ndarray(zeros3(Len(unique_inlines(loc)),
                                         Len(unique_xlines(loc)), Len(f.samples)))]

stmt_185(self, f, loc, i) ==
    [self EXCEPT !.data = ndarray(scatter_trace(self.data.v, f, loc, i))]

stmt_190_193(self, loc) ==
    [self EXCEPT !.inline_range = ndarray(unique_inlines(loc)),
                 !.xline_range = ndarray(unique_xlines(loc)),
                 !.sample_range = self.sample_coords,
                 !.geometry = calculate_survey_geometry(
                                  loc.inlines, loc.xlines, loc.x_coords, loc.y_coords,
                                  unique_inlines(loc), unique_xlines(loc))]

stmt_209(self) == [self EXCEPT !.amplitude_range = amplitude_range_of(self.data.v)]

stmt_222_224(self) ==
    [self EXCEPT !.current_inline_idx = Len(self.inline_range.v) \div 2,
                 !.current_xline_idx = Len(self.xline_range.v) \div 2,
                 !.current_sample_idx = Len(self.sample_range.v) \div 2]

\* lines 173-188 as one piece
stmt_173_188(self, f, loc) ==
    [self EXCEPT !.data = ndarray(scatter(self.data.v, f, loc, Len(f.trace)))]

\* load_segy_file(filepath): the processor it leaves, what it returns, and
\* its local lists.  It raises (and returns False) when segyio.open raises,
\* at line 158 on min() of no traces, and at line 199 on np.min of no values.
load_segy_file(self, f) ==
    IF ~f.openable THEN [self |-> self, ret |-> FALSE, loc |-> NoLocals]
    ELSE
    LET loc == read_trace_headers(f)
        s1 == stmt_110(self, f)
    IN  IF unique_inlines(loc) = <<>> THEN [self |-> s1, ret |-> FALSE, loc |-> loc]
        ELSE
        LET s2 == stmt_190_193(
                      stmt_173_188(
                          stmt_168(stmt_162(stmt_161(s1, loc), loc), f, loc),
                          f, loc),
                      loc)
        IN  IF Flatten3(s2.data.v) = <<>> THEN [self |-> s2, ret |-> FALSE, loc |-> loc]
            ELSE [self |-> stmt_222_224(stmt_209(s2)), ret |-> TRUE, loc |-> loc]

-----------------------------------------------------------------------------
(* get_cube_info (lines 470-507) and get_slice_data (lines 413-468) *)

\* arr.min() and arr.max() raise on None and on an empty array
has_min(arr) == arr # None /\ arr.v # <<>>

get_cube_info(self) ==
    IF self.data = None THEN None
    ELSE IF ~(has_min(self.inline_range) /\ has_min(self.xline_range)
              /\ has_min(self.sample_range)) THEN None
    ELSE [shape |-> shape(self.data),
          inline_range |-> [min |-> SetMin(Range(self.inline_range.v)),
                            max |-> SetMax(Range(self.inline_range.v)),
                            count |-> Len(self.inline_range.v)],
          xline_range |-> [min |-> SetMin(Range(self.xline_range.v)),
                           max |-> SetMax(Range(self.xline_range.v)),
                           count |-> Len(self.xline_range.v)],
          sample_range |-> [min |-> SetMin(Range(self.sample_range.v)),
                            max |-> SetMax(Range(self.sample_range.v)),
                            count |-> Len(self.sample_range.v)],
          amplitude_range |-> self.amplitude_range,
          nbytes |-> 8 * Len(Flatten3(self.data.v)),
          geometry |-> IF self.geometry = None THEN default_geometry
                       ELSE self.geometry]

SliceTypes == {"inline", "xline", "sample"}

\* the axis of self.data a slice type indexes (0-based)
slice_axis(slice_type) ==
    CASE slice_type = "inline" -> 0
      [] slice_type = "xline" -> 1
      [] slice_type = "sample" -> 2

\* numpy indexing of an axis of length n: negative indices count from the
\* end, anything outside -n .. n-1 raises IndexError
index_ok(index, n) == -n <= index /\ index < n

wrap_index(index, n) == IF index < 0 THEN index + n ELSE index

\* lines 421, 428, 435: self.data[index, :, :], [:, index, :], [:, :, index]
take(cube, slice_type, k) ==
    LET sh == <<Len(cube), Len(cube[1]), Len(cube[1][1])>>
    IN  CASE slice_type = "inline" ->
               [c \in 1..sh[2] |-> [s \in 1..sh[3] |-> cube[k + 1][c][s]]]
          [] slice_type = "xline" ->
               [i \in 1..sh[1] |-> [s \in 1..sh[3] |-> cube[i][k + 1][s]]]
          [] slice_type = "sample" ->
               [i \in 1..sh[1] |-> [c \in 1..sh[2] |-> cube[i][c][k + 1]]]

\* data.T of a 2-D array
transpose(m) ==
    IF m = <<>> THEN <<>>
    ELSE [r \in 1..Len(m[1]) |-> [c \in 1..Len(m) |-> m[c][r]]]

\* every slice type transposed
sliced_bug(cube, slice_type, k) == transpose(take(cube, slice_type, k))

\* lines 420-449
sliced(cube, slice_type, k) ==
    IF slice_type \in {"inline", "xline"}
    THEN transpose(take(cube, slice_type, k))
    ELSE take(cube, slice_type, k)

\* lines 422-425, 429-432, 436-439 (.tolist() raises on None)
slice_coords(self, slice_type) ==
    CASE slice_type = "inline" -> [x |-> self.xline_coords, y |-> self.sample_coords]
      [] slice_type = "xline" -> [x |-> self.inline_coords, y |-> self.sample_coords]
      [] slice_type = "sample" -> [x |-> self.inline_coords, y |-> self.xline_coords]

get_slice_data(self, slice_type, index) ==
    IF self.data = None THEN None
    ELSE IF slice_type \notin SliceTypes THEN None
    ELSE IF ~index_ok(index, shape(self.data)[slice_axis(slice_type) + 1]) THEN None
    ELSE IF slice_coords(self, slice_type).x = None
            \/ slice_coords(self, slice_type).y = None THEN None
    ELSE
    LET k == wrap_index(index, shape(self.data)[slice_axis(slice_type) + 1])
        data == sliced(self.data.v, slice_type, k)
        flat == nan_to_num_seq(Flatten2(data))
    IN  IF flat = <<>> THEN None
        ELSE [data |-> [r \in 1..Len(data) |-> nan_to_num_seq(data[r])],
              coordinates |-> [x |-> slice_coords(self, slice_type).x.v,
                               y |-> slice_coords(self, slice_type).y.v],
              amplitude_stats |-> stats_of(flat)]

-----------------------------------------------------------------------------
(* The routes /api/upload, /api/cube-info and /api/slice (lines 532-643) *)

json_error(status, error) == [status |-> status, error |-> error]

json_ok(body) == [status |-> 200, body |-> body]

upload_response_bug(r) ==
    IF get_cube_info(r.self) # None
    THEN json_ok([message |-> "Files uploaded and processed successfully",
                  cube_info |-> get_cube_info(r.self)])
    ELSE json_error(500, "Failed to get cube information")

\* lines 570-601, given the outcome r of load_segy_file
upload_response(r) ==
    IF r.ret
    THEN IF get_cube_info(r.self) # None
         THEN json_ok([message |-> "Files uploaded and processed successfully",
                       cube_info |-> get_cube_info(r.self)])
         ELSE json_error(500, "Failed to get cube information")
    ELSE json_error(500, "Failed to process SEGY file")

\* lines 612-619
cube_info_response(self) ==
    IF get_cube_info(self) # None THEN json_ok(get_cube_info(self))
    ELSE json_error(400, "No cube data loaded")

\* line 636
out_of_bounds_bug(index, max_index) == index > max_index

out_of_bounds(index, max_index) == index < 0 \/ index > max_index

\* lines 622-643
slice_response(self, slice_type, index) ==
    IF slice_type \notin SliceTypes THEN json_error(400, "Invalid slice type")
    ELSE IF self.data = None THEN json_error(400, "No cube data loaded")
    ELSE IF out_of_bounds(index, shape(self.data)[slice_axis(slice_type) + 1] - 1)
    THEN json_error(400, "Index out of bounds")
    ELSE IF get_slice_data(self, slice_type, index) # None
    THEN json_ok(get_slice_data(self, slice_type, index))
    ELSE json_error(500, "Failed to get slice data")

-----------------------------------------------------------------------------
(* The files and requests the server is driven with *)

MaxLifeTraces == 2

MaxLifeSamples == 2

\* sample k (1-based) of the trace at ordinal i (1-based): distinct non-zero values
tagged_samples(i, n_samples) == [k \in 1..n_samples |-> 10 * i + k]

LifeHeaders == {Header(0, 0), Header(1, 2)}

LifeFiles ==
    {CorruptFile} \cup
    {SegyFile(n_samples, [i \in 1..n |-> Trace(hs[i], tagged_samples(i, n_samples))]) :
        <<n_samples, n, hs>> \in
            UNION {{<<ns, m, h>> : h \in [1..m -> LifeHeaders]} :
                      <<ns, m>> \in (0..MaxLifeSamples) \X (0..MaxLifeTraces)}}

RequestedSliceTypes == SliceTypes \cup {"depth"}

RequestedIndexes == -2 .. (MaxLifeTraces + 1)

-----------------------------------------------------------------------------
(* Spec: the requests are served one at a time *)

\* where a thread of load_segy_file stands: the line, and the i of line 173
at(line, i) == [line |-> line, i |-> i]

NoThreads ==
    /\ upload_pc = at("idle", 0)
    /\ slice_pc = "idle" /\ slice_req = [slice_type |-> "inline", index |-> 0]

InitServer ==
    /\ processor = new_processor
    /\ request = [op |-> "start"]
    /\ response = [status |-> 0]
    /\ locals = NoLocals
    /\ ever_loaded = FALSE

Init == InitServer /\ NoThreads /\ pending_file = CorruptFile

\* POST /api/upload with no SEG-Y file among the uploaded files (line 571)
UploadNothing ==
    /\ request' = [op |-> "upload", segy_files |-> <<>>]
    /\ response' = json_error(400, "No SEGY files found in uploaded files")
    /\ UNCHANGED <<processor, locals, ever_loaded>>
    /\ UNCHANGED <<upload_pc, pending_file, slice_pc, slice_req>>

\* POST /api/upload whose first SEG-Y file is f
UploadFile(f) ==
    LET r == load_segy_file(processor, f)
    IN  /\ request' = [op |-> "upload", segy_files |-> <<f>>]
        /\ processor' = r.self
        /\ locals' = r.loc
        /\ ever_loaded' = (ever_loaded \/ r.ret)
        /\ response' = upload_response(r)
        /\ UNCHANGED <<upload_pc, pending_file, slice_pc, slice_req>>

\* GET /api/cube-info
GetCubeInfo ==
    /\ request' = [op |-> "cube-info"]
    /\ response' = cube_info_response(processor)
    /\ UNCHANGED <<processor, locals, ever_loaded>>
    /\ UNCHANGED <<upload_pc, pending_file, slice_pc, slice_req>>

\* a slice handler that keeps the statistics of the slice it served
GetSlice_bug(slice_type, index) ==
    /\ request' = [op |-> "slice", slice_type |-> slice_type, index |-> index]
    /\ response' = slice_response(processor, slice_type, index)
    /\ processor' =
          IF slice_response(processor, slice_type, index).status = 200
          THEN [processor EXCEPT !.amplitude_range =
                   slice_response(processor, slice_type, index).body.amplitude_stats]
          ELSE processor
    /\ UNCHANGED <<locals, ever_loaded>>
    /\ UNCHANGED <<upload_pc, pending_file, slice_pc, slice_req>>

\* GET /api/slice/<slice_type>/<index>
GetSlice(slice_type, index) ==
    /\ request' = [op |-> "slice", slice_type |-> slice_type, index |-> index]
    /\ response' = slice_response(processor, slice_type, index)
    /\ UNCHANGED <<processor, locals, ever_loaded>>
    /\ UNCHANGED <<upload_pc, pending_file, slice_pc, slice_req>>

Next ==
    \/ UploadNothing
    \/ \E f \in LifeFiles : UploadFile(f)
    \/ GetCubeInfo
    \/ \E slice_type \in RequestedSliceTypes, index \in RequestedIndexes :
           GetSlice(slice_type, index)

Spec == Init /\ [][Next]_vars

-----------------------------------------------------------------------------
(* Properties of the requests served one at a time (Spec) *)

\* the current Cube: amplitudes, axes, statistics and geometry
Cube ==
    [data |-> processor.data,
     inline_coords |-> processor.inline_coords,
     xline_coords |-> processor.xline_coords,
     sample_coords |-> processor.sample_coords,
     inline_range |-> processor.inline_range,
     xline_range |-> processor.xline_range,
     sample_range |-> processor.sample_range,
     amplitude_range |-> processor.amplitude_range,
     geometry |-> processor.geometry]

IsUpload(req) == req.op = "upload" /\ req.segy_files # <<>>

IsSlice(req) == req.op = "slice" /\ req.slice_type \in SliceTypes

\* C1: an ingestion that fails leaves the current Cube exactly as it was
\* before the ingestion started (data, axes, statistics and geometry).
C1_FailedIngestLeavesCube ==
    [][(IsUpload(request') /\ response'.status # 200) => Cube' = Cube]_vars

\* C3: with a Cube loaded, a slice request on any axis whose index is below 0
\* or at least the length of that dimension of the volume is answered with
\* the out-of-bounds error and carries no slice data.
C3_OutOfRangeIsRangeError ==
    (/\ IsSlice(request)
     /\ processor.data # None
     /\ \/ request.index < 0
        \/ request.index >= shape(processor.data)[slice_axis(request.slice_type) + 1])
    => response = json_error(400, "Index out of bounds")

C3_Witness ==
    /\ IsSlice(request)
    /\ processor.data # None
    /\ ever_loaded
    /\ request.slice_type = "xline"
    /\ request.index = shape(processor.data)[2]
    /\ response = json_error(400, "Index out of bounds")

\* C4: a slice request on a valid axis (with an index the route accepts,
\* 0 or more) made before any ingestion has succeeded is answered with the
\* not-loaded error, whatever ingestions have failed before it.
C4_NotLoadedBeforeSuccess ==
    (IsSlice(request) /\ request.index >= 0 /\ ~ever_loaded)
    => response = json_error(400, "No cube data loaded")

\* C5: ingesting a file with zero traces is answered with an error, and the
\* amplitude volume that was current (or none) stays the current one.
C5_ZeroTracesFails ==
    [][(/\ IsUpload(request')
        /\ request'.segy_files[1].openable
        /\ request'.segy_files[1].trace = <<>>)
       => (/\ response'.status = 500
           /\ processor'.data = processor.data
           /\ ever_loaded' = ever_loaded)]_vars

C5_Witness ==
    /\ IsUpload(request)
    /\ request.segy_files[1].openable
    /\ request.segy_files[1].trace = <<>>
    /\ response = json_error(500, "Failed to process SEGY file")
    /\ processor.data = None

\* C14: slice extraction and cube summary are read-only: a slice or
\* cube-info request, answered or refused, leaves the current Cube
\* (amplitudes, axes, statistics, geometry) unchanged; the Cube changes only
\* through an upload.
C14_ReadsLeaveCube ==
    [][/\ request'.op \in {"slice", "cube-info"} => Cube' = Cube
       /\ Cube' # Cube => request'.op = "upload"]_vars

\* a slice has been served from a loaded cube
C14_Witness ==
    /\ IsSlice(request) /\ response.status = 200
    /\ processor.data # None /\ processor.amplitude_range # None

\* C15: in every reachable state, after any sequence of successful and
\* failed ingestions, if data is loaded then its shape is (len(inline_coords),
\* len(xline_coords), len(sample_coords)), and inline_range, xline_range,
\* sample_range, amplitude_range and geometry describe that same data array
\* (stated for data that holds at least one amplitude).
C15_CubeFieldsAgree ==
    (processor.data # None /\ Flatten3(processor.data.v) # <<>>)
    => /\ processor.inline_coords # None
       /\ processor.xline_coords # None
       /\ processor.sample_coords # None
       /\ shape(processor.data) = <<Len(processor.inline_coords.v),
                                    Len(processor.xline_coords.v),
                                    Len(processor.sample_coords.v)>>
       /\ processor.inline_range = processor.inline_coords
       /\ processor.xline_range = processor.xline_coords
       /\ processor.sample_range = processor.sample_coords
       /\ processor.amplitude_range = amplitude_range_of(processor.data.v)
       /\ processor.geometry # None

-----------------------------------------------------------------------------
(* SpecAssemble: one file, drawn from families that vary the headers and   *)
(* the sample values, is ingested by a fresh processor                     *)

MaxAsmTraces == 3

MaxPlaceTraces == 4

MaxFallbackTraces == 9

\* headers on a 2 x 2 grid, absent or unreadable; one sample that may be non-finite
AssemblyTraces ==
    {Trace(h, <<v>>) :
        h \in {UnreadableHeader, Header(0, 0), Header(1, 1),
               Header(1, 2), Header(2, 1), Header(2, 2)},
        v \in {1, NaN, PosInf, NegInf}}

\* headers with one or both ids zero among headers with real ids
PlacementTraces ==
    {Trace(h, <<1>>) :
        h \in {UnreadableHeader, Header(0, 0), Header(0, 2), Header(1, 0),
               Header(1, 1), Header(2, 2), Header(3, 1)}}

\* headers that carry no ids
FallbackTraces == {Trace(h, <<1>>) : h \in {UnreadableHeader, Header(0, 0)}}

\* n traces that carry no ids, each with a sample of its own
TaggedFallbackFile(n) ==
    SegyFile(1, [t \in 1..n |-> Trace(Header(0, 0), tagged_samples(t, 1))])

InitAssemble ==
    /\ InitServer /\ NoThreads
    /\ \/ \E n \in 0..MaxAsmTraces :
              pending_file \in {SegyFile(1, ts) : ts \in [1..n -> AssemblyTraces]}
       \/ \E n \in 0..MaxPlaceTraces :
              pending_file \in {SegyFile(1, ts) : ts \in [1..n -> PlacementTraces]}
       \/ \E n \in 0..MaxFallbackTraces :
              pending_file \in {SegyFile(1, ts) : ts \in [1..n -> FallbackTraces]}
       \/ \E n \in 0..MaxFallbackTraces :
              pending_file = TaggedFallbackFile(n)

\* the first POST /api/upload of a server, with the file drawn
IngestPending == request.op = "start" /\ UploadFile(pending_file)

SpecAssemble == InitAssemble /\ [][IngestPending]_vars

-----------------------------------------------------------------------------
(* Properties of one ingestion (SpecAssemble) *)

Ingested == IsUpload(request) /\ response.status = 200

\* the file of the upload request
file == request.segy_files[1]

\* sanitize: every NaN and +/-Infinity replaced by 0
Sanitized(samples) ==
    [k \in 1..Len(samples) |->
        IF samples[k] = NaN \/ samples[k] = PosInf \/ samples[k] = NegInf
        THEN 0 ELSE samples[k]]

\* the 1-based position of a value on an axis (0 when it is not on it)
AxisIndex(axis, v) ==
    IF \E k \in 1..Len(axis.v) : axis.v[k] = v
    THEN CHOOSE k \in 1..Len(axis.v) : axis.v[k] = v
    ELSE 0

\* the cell of the volume the trace at ordinal i (1-based) was resolved to
CellOf(i) ==
    processor.data.v[AxisIndex(processor.inline_coords, locals.inlines[i])]
                    [AxisIndex(processor.xline_coords, locals.xlines[i])]

OnAxes(i) ==
    /\ AxisIndex(processor.inline_coords, locals.inlines[i]) # 0
    /\ AxisIndex(processor.xline_coords, locals.xlines[i]) # 0

\* the traces resolved to the pair <<il, xl>>
TracesAt(il, xl) ==
    {i \in 1..Len(file.trace) : locals.inlines[i] = il /\ locals.xlines[i] = xl}

\* the header of the trace at ordinal i (1-based) carries both ids
ValidIds(i) ==
    /\ file.trace[i].header.readable
    /\ file.trace[i].header.INLINE_3D # 0
    /\ file.trace[i].header.CROSSLINE_3D # 0

\* C6 as stated: after a successful ingestion the cell of every trace that
\* has a valid (inline, crossline), both on the axes, holds that trace's
\* sanitized sample vector.
C6_EveryTraceInItsCell ==
    Ingested =>
        \A i \in 1..Len(file.trace) :
            (ValidIds(i) /\ OnAxes(i)) => CellOf(i) = Sanitized(file.trace[i].data)

\* C6 amended: after a successful ingestion the cell of every trace whose
\* (inline, crossline), from its header or synthesised, lie on the axes and
\* to whose pair no later trace of the input is resolved holds that trace's
\* sanitized sample vector.
C6_LastTraceInItsCell ==
    Ingested =>
        \A i \in 1..Len(file.trace) :
            (OnAxes(i) /\ i = SetMax(TracesAt(locals.inlines[i], locals.xlines[i])))
            => CellOf(i) = Sanitized(file.trace[i].data)

C6_Witness ==
    /\ Ingested
    /\ \E i, j \in 1..Len(file.trace) :
          /\ i < j
          /\ j \in TracesAt(locals.inlines[i], locals.xlines[i])
          /\ file.trace[i].data = <<1>>
          /\ file.trace[j].data = <<NegInf>>
          /\ CellOf(j) = <<0>>

\* C7: after a successful ingestion a cell targeted by one or more traces
\* holds the sanitized sample vector of the last of them in input order, and
\* a cell targeted by no trace is all zero.
C7_LastWriterWinsElseZero ==
    Ingested =>
        \A a \in 1..Len(processor.inline_coords.v), b \in 1..Len(processor.xline_coords.v) :
            LET T == TracesAt(processor.inline_coords.v[a], processor.xline_coords.v[b])
            IN  IF T # {}
                THEN processor.data.v[a][b] = Sanitized(file.trace[SetMax(T)].data)
                ELSE \A k \in 1..Len(processor.data.v[a][b]) : processor.data.v[a][b][k] = 0

C7_Witness ==
    /\ Ingested
    /\ shape(processor.data) = <<2, 2, 1>>
    /\ TracesAt(processor.inline_coords.v[1], processor.xline_coords.v[1]) = {}
    /\ processor.data.v[1][1] = <<0>>
    /\ TracesAt(processor.inline_coords.v[2], processor.xline_coords.v[1]) = {1, 3}
    /\ file.trace[1].data = <<1>>
    /\ file.trace[3].data = <<NaN>>
    /\ processor.data.v[2][1] = <<0>>

StrictlyIncreasing(s) == \A k \in 1..(Len(s) - 1) : s[k] < s[k + 1]

\* C8: for every loaded Cube the inline and crossline axes are strictly
\* increasing, their lengths are the first two dimensions of the volume, and
\* the product of the lengths is at least the number of distinct resolved
\* (inline, crossline) pairs.
C8_AxesSortedAndSized ==
    processor.data # None =>
        /\ StrictlyIncreasing(processor.inline_coords.v)
        /\ StrictlyIncreasing(processor.xline_coords.v)
        /\ Len(processor.inline_coords.v) = shape(processor.data)[1]
        /\ Len(processor.xline_coords.v) = shape(processor.data)[2]
        /\ Len(processor.inline_coords.v) * Len(processor.xline_coords.v)
           >= Cardinality({<<locals.inlines[i], locals.xlines[i]>> :
                              i \in 1..Len(locals.inlines)})

C8_Witness ==
    /\ Ingested
    /\ locals.inlines = <<2, 1, 2>>
    /\ locals.xlines = <<1, 2, 1>>
    /\ processor.inline_coords.v = <<1, 2>>
    /\ shape(processor.data) = <<2, 2, 1>>

\* C9: a trace whose header carries a non-zero inline id and a non-zero
\* crossline id is placed at those ids; every other trace (an id zero, or the
\* header unreadable), at ordinal i (0-based) of n traces, is placed at
\* (i div g + 1, i mod g + 1) with g = floor(sqrt(n)).
C9_Placement ==
    (IsUpload(request) /\ file.openable) =>
        LET n == Len(file.trace)
            g == CHOOSE q \in 0..n : q * q <= n /\ n < (q + 1) * (q + 1)
        IN  /\ Len(locals.inlines) = n /\ Len(locals.xlines) = n
            /\ \A i \in 0..(n - 1) :
                  LET h == file.trace[i + 1].header
                  IN  IF h.readable /\ h.INLINE_3D # 0 /\ h.CROSSLINE_3D # 0
                      THEN /\ locals.inlines[i + 1] = h.INLINE_3D
                           /\ locals.xlines[i + 1] = h.CROSSLINE_3D
                      ELSE /\ locals.inlines[i + 1] = (i \div g) + 1
                           /\ locals.xlines[i + 1] = (i % g) + 1

C9_Witness ==
    /\ Ingested
    /\ Len(file.trace) = 4
    /\ file.trace[1].header = Header(3, 1)
    /\ file.trace[2].header = Header(0, 2)
    /\ ~file.trace[3].header.readable
    /\ file.trace[4].header = Header(1, 0)
    /\ locals.inlines = <<3, 1, 2, 2>>
    /\ locals.xlines = <<1, 2, 1, 2>>

\* C16: fallback placement never makes two traces collide: two different
\* traces that both take the fallback path are resolved to different
\* (inline, crossline) pairs, so a collision involves a trace placed by its
\* header ids; and when every trace of a file takes the fallback path, each
\* trace's cell holds that trace's samples after the ingestion.
C16_FallbackNeverCollides ==
    (IsUpload(request) /\ file.openable)
    => /\ \A i, j \in 1..Len(file.trace) :
             (i # j /\ ~ValidIds(i) /\ ~ValidIds(j))
             => <<locals.inlines[i], locals.xlines[i]>>
                # <<locals.inlines[j], locals.xlines[j]>>
       /\ (Len(file.trace) >= 1 /\ \A i \in 1..Len(file.trace) : ~ValidIds(i))
          => /\ Ingested
             /\ \A i \in 1..Len(file.trace) :
                   OnAxes(i) /\ CellOf(i) = Sanitized(file.trace[i].data)

\* 5 traces without ids, each with a sample of its own, on a 3 x 2 grid
C16_Witness ==
    /\ Ingested
    /\ file = TaggedFallbackFile(5)
    /\ locals.inlines = <<1, 1, 2, 2, 3>>
    /\ locals.xlines = <<1, 2, 1, 2, 1>>
    /\ processor.data.v = <<<<<<11>>, <<21>>>>, <<<<31>>, <<41>>>>, <<<<51>>, <<0>>>>>>

-----------------------------------------------------------------------------
(* SpecGeom: one file, drawn from families that vary the coordinates the   *)
(* headers carry, is ingested by a fresh processor                         *)

MaxGeomTraces == 4

Coords(readable, cdp_x, cdp_y, source_x, source_y) ==
    [coord_readable |-> readable, CDP_X |-> cdp_x, CDP_Y |-> cdp_y,
     SourceX |-> source_x, SourceY |-> source_y]

\* no coordinates; CDP coordinates; coordinates in SourceX/SourceY only
SurveyCoords ==
    {Coords(TRUE, 0, 0, 0, 0), Coords(TRUE, 1, 1, 0, 0),
     Coords(TRUE, 2, 1, 0, 0), Coords(TRUE, 0, 0, 1, 2)}

SurveyCells == (1..3) \X (1..3)

\* the cells of S in survey order: by inline, then by crossline
cells_in_order(S) ==
    LET codes == sorted({10 * c[1] + c[2] : c \in S})
    IN  [k \in 1..Len(codes) |-> <<codes[k] \div 10, codes[k] % 10>>]

\* a survey that recorded the cells S once each, in survey order
SurveyFile(S, coords) ==
    SegyFile(1, [k \in 1..Cardinality(S) |->
                    Trace(WithCoords(Header(cells_in_order(S)[k][1],
                                            cells_in_order(S)[k][2]),
                                     coords[cells_in_order(S)[k]]),
                          <<1>>)])

\* traces that revisit cells or carry no ids, with CDP coordinates that are
\* complete, half zero, or unreadable
RevisitTraces ==
    {Trace(WithCoords(h, c), <<1>>) :
        h \in {Header(1, 1), Header(2, 1), Header(0, 0)},
        c \in {Coords(TRUE, 1, 1, 0, 0), Coords(TRUE, 0, 2, 0, 0),
               Coords(FALSE, 1, 1, 0, 0)}}

without_samples(ts) == [k \in 1..Len(ts) |-> Trace(ts[k].header, <<>>)]

InitGeom ==
    /\ InitServer /\ NoThreads
    /\ \/ \E S \in SUBSET SurveyCells :
              /\ Cardinality(S) <= MaxGeomTraces
              /\ pending_file \in {SurveyFile(S, coords) : coords \in [S -> SurveyCoords]}
       \/ \E n \in 0..MaxGeomTraces :
              pending_file \in {SegyFile(1, ts) : ts \in [1..n -> RevisitTraces]}
       \/ \E n \in 0..MaxGeomTraces :
              pending_file \in {SegyFile(0, without_samples(ts)) :
                                   ts \in [1..n -> RevisitTraces]}

SpecGeom == InitGeom /\ [][IngestPending]_vars

-----------------------------------------------------------------------------
(* Properties of the geometry of one ingestion (SpecGeom) *)

\* the traces whose header carries a coordinate pair without a zero
CoordTraces ==
    {i \in 1..Len(file.trace) :
        LET h == file.trace[i].header
        IN  /\ h.readable /\ h.coord_readable
            /\ IF h.CDP_X = 0 /\ h.CDP_Y = 0
               THEN h.SourceX # 0 /\ h.SourceY # 0
               ELSE h.CDP_X # 0 /\ h.CDP_Y # 0}

DefaultGeometry ==
    /\ processor.geometry.has_coordinates = FALSE
    /\ processor.geometry.inline_azimuth = 0
    /\ processor.geometry.xline_azimuth = 90

\* C10 as stated: a file with fewer than 4 traces that carry non-zero
\* coordinates is ingested successfully, and the geometry is the default one.
C10_FewCoordsDefaultAndSuccess ==
    (IsUpload(request) /\ file.openable /\ Cardinality(CoordTraces) < 4)
    => (response.status = 200 /\ DefaultGeometry)

\* C10 amended: a file with at least one trace and at least one sample per
\* trace, fewer than 4 of whose traces carry non-zero coordinates, is ingested
\* successfully, and the geometry (of the processor and of the answer) is the
\* default one.
C10_FewCoordsDefault ==
    (/\ IsUpload(request) /\ file.openable
     /\ Len(file.trace) >= 1 /\ Len(file.samples) >= 1
     /\ Cardinality(CoordTraces) < 4)
    => (/\ response.status = 200
        /\ DefaultGeometry
        /\ response.body.cube_info.geometry = processor.geometry)

C10_Witness ==
    /\ Ingested
    /\ Cardinality(CoordTraces) = 3
    /\ Cardinality(DOMAIN coord_map(locals.inlines, locals.xlines,
                                    locals.x_coords, locals.y_coords)) = 3
    /\ DefaultGeometry

\* the coordinate map line 247 builds from the lists of the ingestion
GeomMap == coord_map(locals.inlines, locals.xlines, locals.x_coords, locals.y_coords)

\* the points lines 258-269 and 273-284 end with
InlinePair == inline_points(GeomMap, unique_inlines(locals), unique_xlines(locals))

XlinePair == xline_points(GeomMap, unique_inlines(locals), unique_xlines(locals))

\* the tests of lines 288 and 294
InlinePairFound == truthy(InlinePair[1]) /\ truthy(InlinePair[2])

XlinePairFound == truthy(XlinePair[1]) /\ truthy(XlinePair[2])

\* C11: with at least 4 coordinate entries, an axis for which no pair of
\* points is found keeps its default azimuth (0 for inline, 90 for
\* crossline), and has_coordinates is true only if a pair was found for at
\* least one of the two axes.
C11_DefaultsAndAnyAxisSucceeded ==
    (Ingested /\ Cardinality(DOMAIN GeomMap) >= 4)
    => (/\ ~InlinePairFound => processor.geometry.inline_azimuth = 0
        /\ ~XlinePairFound => processor.geometry.xline_azimuth = 90
        /\ processor.geometry.has_coordinates => (InlinePairFound \/ XlinePairFound))

\* the pairs of keys of the coordinate map that share a crossline and differ
\* in inline, and those that share an inline and differ in crossline
SameXlinePairs ==
    {p \in (DOMAIN GeomMap) \X (DOMAIN GeomMap) : p[1][2] = p[2][2] /\ p[1][1] # p[2][1]}

SameInlinePairs ==
    {p \in (DOMAIN GeomMap) \X (DOMAIN GeomMap) : p[1][1] = p[2][1] /\ p[1][2] # p[2][2]}

\* C12: with at least 4 coordinate entries, whenever the coordinate map holds
\* two entries with the same crossline and different inlines, such a pair is
\* found and the inline azimuth is computed from it; the crossline azimuth
\* symmetrically, holding the inline fixed.
C12_AzimuthFromValidPair ==
    (Ingested /\ Cardinality(DOMAIN GeomMap) >= 4)
    => (/\ SameXlinePairs # {} =>
              \E p \in SameXlinePairs :
                 /\ InlinePair = <<GeomMap[p[1]], GeomMap[p[2]]>>
                 /\ processor.geometry.inline_azimuth =
                       azimuth(GeomMap[p[2]][1] - GeomMap[p[1]][1],
                               GeomMap[p[2]][2] - GeomMap[p[1]][2])
        /\ SameInlinePairs # {} =>
              \E p \in SameInlinePairs :
                 /\ XlinePair = <<GeomMap[p[1]], GeomMap[p[2]]>>
                 /\ processor.geometry.xline_azimuth =
                       azimuth(GeomMap[p[2]][1] - GeomMap[p[1]][1],
                               GeomMap[p[2]][2] - GeomMap[p[1]][2]))

-----------------------------------------------------------------------------
(* SpecConc: the development server handles each request in a thread of    *)
(* its own (app.run, line 756), and the handlers share the processor with  *)
(* no lock.  One upload and one slice request run interleaved; a step of   *)
(* the upload is one statement of load_segy_file that assigns to self, a   *)
(* step of the slice request is get_slice's checks or get_slice_data.      *)

MaxConcTraces == 2

\* files whose ingestion succeeds
ConcFiles ==
    {SegyFile(1, [i \in 1..n |-> Trace(hs[i], tagged_samples(i, 1))]) :
        <<n, hs>> \in UNION {{<<m, h>> : h \in [1..m -> LifeHeaders]} :
                                m \in 1..MaxConcTraces}}

InitConc ==
    /\ InitServer /\ NoThreads
    /\ pending_file = CorruptFile

\* upload_file up to the call of line 576, and segyio.open (line 103)
StartUpload(f) ==
    /\ upload_pc.line = "idle"
    /\ pending_file' = f
    /\ upload_pc' = at(IF f.openable THEN "110" ELSE "return False", 0)
    /\ UNCHANGED <<processor, request, response, locals, ever_loaded, slice_pc, slice_req>>

\* lines 104-159
Load110 ==
    /\ upload_pc.line = "110"
    /\ processor' = stmt_110(processor, pending_file)
    /\ locals' = read_trace_headers(pending_file)
    /\ upload_pc' = at(IF unique_inlines(read_trace_headers(pending_file)) = <<>>
                       THEN "return False" ELSE "161", 0)
    /\ UNCHANGED <<request, response, ever_loaded, pending_file, slice_pc, slice_req>>

Load161 ==
    /\ upload_pc.line = "161"
    /\ processor' = stmt_161(processor, locals)
    /\ upload_pc' = at("162", 0)
    /\ UNCHANGED <<request, response, locals, ever_loaded, pending_file, slice_pc, slice_req>>

Load162 ==
    /\ upload_pc.line = "162"
    /\ processor' = stmt_162(processor, locals)
    /\ upload_pc' = at("168", 0)
    /\ UNCHANGED <<request, response, locals, ever_loaded, pending_file, slice_pc, slice_req>>

\* lines 165-171; the loop of line 173 starts at trace 0
Load168 ==
    /\ upload_pc.line = "168"
    /\ processor' = stmt_168(processor, pending_file, locals)
    /\ upload_pc' = at("185", 0)
    /\ UNCHANGED <<request, response, locals, ever_loaded, pending_file, slice_pc, slice_req>>

\* one pass of the loop of lines 173-188
Load185 ==
    /\ upload_pc.line = "185"
    /\ upload_pc.i < Len(pending_file.trace)
    /\ processor' = stmt_185(processor, pending_file, locals, upload_pc.i)
    /\ upload_pc' = at("185", upload_pc.i + 1)
    /\ UNCHANGED <<request, response, locals, ever_loaded, pending_file,
                   slice_pc, slice_req>>

Load190 ==
    /\ upload_pc.line = "185"
    /\ upload_pc.i = Len(pending_file.trace)
    /\ processor' = stmt_190_193(processor, locals)
    /\ upload_pc' = at("199", 0)
    /\ UNCHANGED <<request, response, locals, ever_loaded, pending_file, slice_pc, slice_req>>

\* lines 197-220
Load199 ==
    /\ upload_pc.line = "199"
    /\ IF Flatten3(processor.data.v) = <<>>
       THEN upload_pc' = at("return False", 0) /\ UNCHANGED processor
       ELSE upload_pc' = at("222", 0) /\ processor' = stmt_209(processor)
    /\ UNCHANGED <<request, response, locals, ever_loaded, pending_file, slice_pc, slice_req>>

\* lines 222-236, and upload_file's answer (lines 578-599)
LoadReturnTrue ==
    /\ upload_pc.line = "222"
    /\ processor' = stmt_222_224(processor)
    /\ ever_loaded' = TRUE
    /\ request' = [op |-> "upload", segy_files |-> <<pending_file>>]
    /\ response' = upload_response([self |-> stmt_222_224(processor), ret |-> TRUE])
    /\ upload_pc' = at("idle", 0)
    /\ UNCHANGED <<locals, pending_file, slice_pc, slice_req>>

\* lines 238-241, and upload_file's answer (line 601)
LoadReturnFalse ==
    /\ upload_pc.line = "return False"
    /\ request' = [op |-> "upload", segy_files |-> <<pending_file>>]
    /\ response' = upload_response([self |-> processor, ret |-> FALSE])
    /\ upload_pc' = at("idle", 0)
    /\ UNCHANGED <<processor, locals, ever_loaded, pending_file, slice_pc, slice_req>>

\* get_slice, lines 624-637: the request is refused, or goes on to line 639
SliceCheck(slice_type, index) ==
    /\ slice_pc = "idle"
    /\ IF \/ slice_type \notin SliceTypes
          \/ processor.data = None
          \/ out_of_bounds(index, shape(processor.data)[slice_axis(slice_type) + 1] - 1)
       THEN /\ request' = [op |-> "slice", slice_type |-> slice_type, index |-> index]
            /\ response' = slice_response(processor, slice_type, index)
            /\ UNCHANGED <<slice_pc, slice_req>>
       ELSE /\ slice_pc' = "639"
            /\ slice_req' = [slice_type |-> slice_type, index |-> index]
            /\ UNCHANGED <<request, response>>
    /\ UNCHANGED <<processor, locals, ever_loaded, upload_pc, pending_file>>

\* get_slice, lines 639-643
SliceRead ==
    /\ slice_pc = "639"
    /\ request' = [op |-> "slice", slice_type |-> slice_req.slice_type,
                   index |-> slice_req.index]
    /\ response' =
          IF get_slice_data(processor, slice_req.slice_type, slice_req.index) # None
          THEN json_ok(get_slice_data(processor, slice_req.slice_type, slice_req.index))
          ELSE json_error(500, "Failed to get slice data")
    /\ slice_pc' = "idle"
    /\ slice_req' = [slice_type |-> "inline", index |-> 0]
    /\ UNCHANGED <<processor, locals, ever_loaded, upload_pc, pending_file>>

NextConc ==
    \/ \E f \in ConcFiles \cup {CorruptFile} : StartUpload(f)
    \/ Load110 \/ Load161 \/ Load162 \/ Load168 \/ Load185 \/ Load190 \/ Load199
    \/ LoadReturnTrue
    \/ LoadReturnFalse
    \/ \E slice_type \in SliceTypes, index \in 0..MaxConcTraces :
           SliceCheck(slice_type, index)
    \/ SliceRead

SpecConc == InitConc /\ [][NextConc]_vars

\* the processor a successful ingestion of f leaves
AssembledFrom(f) == load_segy_file(new_processor, f).self

\* C2: a slice extraction that interleaves with an ingestion never reads a
\* mixture of two Cubes: the amplitudes and the coordinate axes it returns
\* are those of the slice of one fully assembled Cube.
C2_SliceOfOneCube ==
    (IsSlice(request) /\ response.status = 200)
    => \E f \in ConcFiles :
           response.body = get_slice_data(AssembledFrom(f), request.slice_type,
                                          request.index)

-----------------------------------------------------------------------------
(* SpecSlice: a fresh processor ingests one file whose traces fill a grid  *)
(* and whose samples all differ, and slices of it are requested            *)

MaxSliceLines == 3

MaxSliceSamples == 2

\* a survey of n_il inlines by n_xl crosslines, recorded in grid order
GridFile(n_il, n_xl, n_samples) ==
    SegyFile(n_samples,
             [t \in 1..(n_il * n_xl) |->
                 Trace(Header(((t - 1) \div n_xl) + 1, ((t - 1) % n_xl) + 1),
                       tagged_samples(t, n_samples))])

\* side * side traces none of which carries ids
SquareFallbackFile(side, n_samples) ==
    SegyFile(n_samples,
             [t \in 1..(side * side) |-> Trace(Header(0, 0), tagged_samples(t, n_samples))])

SliceFiles ==
    {GridFile(a, b, n) : a \in 1..MaxSliceLines, b \in 1..MaxSliceLines,
                         n \in 1..MaxSliceSamples}
    \cup {SquareFallbackFile(MaxSliceLines, n) : n \in 1..MaxSliceSamples}

InitSlice ==
    /\ InitServer /\ NoThreads
    /\ pending_file \in SliceFiles

NextSlice ==
    \/ IngestPending
    \/ \E slice_type \in SliceTypes, index \in 0..MaxSliceLines :
           GetSlice(slice_type, index)

SpecSlice == InitSlice /\ [][NextSlice]_vars

-----------------------------------------------------------------------------
(* Properties of the slices of one ingested file (SpecSlice) *)

\* the requested index lies on the requested axis of the loaded data
InRange ==
    /\ processor.data # None
    /\ request.index >= 0
    /\ request.index < shape(processor.data)[slice_axis(request.slice_type) + 1]

\* C13: for every axis and every in-range index k the slice is returned with
\* the specified shape and orientation: inline out[s][c] = cube[k][c][s],
\* shape (sample_count, crossline_count); crossline out[s][i] = cube[i][k][s],
\* shape (sample_count, inline_count); sample out[i][c] = cube[i][c][k], shape
\* (inline_count, crossline_count), not transposed; the sample slice at index
\* 0 of a square of traces without ids holds the first sample of each trace
\* in grid order.
C13_SliceShapeAndOrientation ==
    (IsSlice(request) /\ request.slice_type \in SliceTypes /\ InRange)
    => /\ response.status = 200
       /\ LET cube == processor.data.v
              n_il == Len(processor.inline_coords.v)
              n_xl == Len(processor.xline_coords.v)
              n_s == Len(processor.sample_coords.v)
              k == request.index + 1
              out == response.body.data
          IN  /\ request.slice_type = "inline" =>
                    /\ Len(out) = n_s
                    /\ \A s \in 1..n_s :
                          /\ Len(out[s]) = n_xl
                          /\ \A c \in 1..n_xl : out[s][c] = cube[k][c][s]
              /\ request.slice_type = "xline" =>
                    /\ Len(out) = n_s
                    /\ \A s \in 1..n_s :
                          /\ Len(out[s]) = n_il
                          /\ \A i \in 1..n_il : out[s][i] = cube[i][k][s]
              /\ request.slice_type = "sample" =>
                    /\ Len(out) = n_il
                    /\ \A i \in 1..n_il :
                          /\ Len(out[i]) = n_xl
                          /\ \A c \in 1..n_xl : out[i][c] = cube[i][c][k]
              /\ (/\ request.slice_type = "sample" /\ request.index = 0
                  /\ \E n \in 1..MaxSliceSamples :
                        pending_file = SquareFallbackFile(MaxSliceLines, n)) =>
                    out = [i \in 1..MaxSliceLines |-> [c \in 1..MaxSliceLines |->
                              pending_file.trace[(i - 1) * MaxSliceLines + c].data[1]]]

\* the sample slice at index 0 of 9 traces without ids, 2 samples each
C13_Witness ==
    /\ IsSlice(request) /\ request.slice_type = "sample" /\ request.index = 0
    /\ pending_file = SquareFallbackFile(3, 2)
    /\ response.status = 200
    /\ response.body.data = <<<<11, 21, 31>>, <<41, 51, 61>>, <<71, 81, 91>>>>

=============================================================================
